---- MODULE Spec2Model ----
(***************************************************************************)
(* Model of the physical plan lowering pass of package plan (lower.go):    *)
(* the per-step lowering functions, the input interning of the walker,     *)
(* the split driver (lowerUnionMap / doSplit) and the tree builder         *)
(* (toTree / toNode).                                                      *)
(*                                                                         *)
(* A physical operator is modelled as a chain: a sequence of operator      *)
(* records, element 1 the terminal operator and the last element the       *)
(* operator returned by walkBuild; each element's From is the element      *)
(* before it.  Indices stored in operators (Leaf.Input, UnionMap.Orig,     *)
(* HashOrder.Column) are 0-based as in the source.                         *)
(***************************************************************************)
EXTENDS Integers, Sequences, FiniteSets, TLC

VARIABLES
    \* ---- lowering of one step chain (walkBuild's switch) ----
    lwCur,      \* the operator lowered so far (the `input` of walkBuild)
    lwFrom,     \* the `from` argument of the last lowering call
    lwStep,     \* the logical step of the last lowering call
    lwEnv,      \* the Env argument of the last lowering call
    lwRes,      \* the (Op, error) pair the last lowering call returned
    lwN,        \* number of steps lowered so far
    \* ---- doSplit applied to one handle ----
    spHandle,   \* the TableHandle argument
    spSplit,    \* the Splitter: leaf handle id -> result of Split
    spRes,      \* what doSplit returned, with the calls it made
    \* ---- toTree: walkers, nodes and the position in the recursion ----
    pc,         \* position of the pass
    env,        \* the Env: shape of the handle stat returns for each table,
                \* revealed by the first stat call of the pass
    wk,         \* walkers, in order of creation: wk[k].inputs
    nd,         \* plan nodes, in order of creation
    stk,        \* the pending calls: lowerUnionMap and toNode frames
    cur,        \* operator chain under construction in the current walkBuild
    tree,       \* the Tree returned by toTree
    putLog,     \* history: every call of walker.put
    lum,        \* history: outcome of the last lowerUnionMap call
    \* ---- QueueRunner.Run (package db, queue.go) ----
    qpc,        \* position of Run
    qLogf,      \* QueueRunner.Logf is set (it may be nil)
    qInputs,    \* q.inputs: the batch gathered from the queue
    qStatus,    \* q.status: one status per element of q.inputs
    qIndirect,  \* q.indirect: 0-based indices into q.inputs
    qFiltered,  \* q.filtered: the blockfmt.Input list of the last filter
    subdefs,    \* the table definitions of the last refresh
    qTodo,      \* definitions runBatches has still to range over
    qNext,      \* history: the items Next has returned, in order
    qFin,       \* history: the calls of Finalize, in order
    qClosed,    \* history: number of calls of Close
    qLog        \* history: the runTable calls of the current batch

lowerVars == <<lwCur, lwFrom, lwStep, lwEnv, lwRes, lwN>>
splitVars == <<spHandle, spSplit, spRes>>
walkVars  == <<pc, env, wk, nd, stk, cur, tree, putLog, lum>>
queueVars == <<qpc, qLogf, qInputs, qStatus, qIndirect, qFiltered, subdefs,
               qTodo, qNext, qFin, qClosed, qLog>>
vars      == <<lowerVars, splitVars, walkVars, queueVars>>

(***************************************************************************)
(* Bounds of the model.                                                    *)
(***************************************************************************)
MaxCount      == 2   \* Limit.Count is drawn from 0..MaxCount
MaxOffset     == 1   \* Limit.Offset is drawn from 0..MaxOffset
MaxCols       == 2   \* an Order step has at most MaxCols columns
MaxLowerSteps == 3   \* steps lowered one after another in SpecLower
MaxOrderSteps == 1   \* Order steps lowered one after another in SpecOrder
MaxOrderBy    == 2   \* cap on len(HashAggregate.OrderBy)
MaxSub        == 2   \* a compound handle wraps at most MaxSub sub-handles
MaxParts      == 2   \* Split returns at most MaxParts subtables per call
MaxNodes      == 3   \* plan nodes (traces) of one tree
MaxItems      == 2   \* items Next returns in one call of Run
MaxBatch      == 2   \* items of one batch (BatchSize, hardlimit)

Nil == "nil"

SeqsUpTo(S, n) == UNION {[1..k -> S] : k \in 0..n}

(***************************************************************************)
(* Expressions.  kind is the Go type of the node, name the identifier of   *)
(* a path, cls the class of expr.Equivalent the node belongs to.           *)
(***************************************************************************)
LiteralKinds == {"bool", "integer", "rational", "float", "string"}

PathN == [kind |-> "path", name |-> "n", cls |-> "n"]
PathK == [kind |-> "path", name |-> "k", cls |-> "k"]
\* an expression that is not a path but is equivalent to the path k
CallK == [kind |-> "call", name |-> "k", cls |-> "k"]
Literal(kd) == [kind |-> kd, name |-> "n", cls |-> kd]

IsIdentifier(ex, s) == ex.kind = "path" /\ ex.name = s

Equivalent(a, b) == a.cls = b.cls

(***************************************************************************)
(* (Op, error) results.  The tags of err name the error messages of the    *)
(* source; the ones built by reject() wrap ErrNotSupported.                *)
(***************************************************************************)
Ok(op)  == [err |-> "none", op |-> op]
Fail(e) == [err |-> e, op |-> <<>>]

reject(msg) == Fail(msg)

ErrNotSupported ==
    {"RejectWildcardCrossJoin", "RejectUnpivot", "RejectCrossJoinNonPath",
     "RejectOffsetHashAggregate", "RejectOffsetDistinct", "RejectOffsetNoOrder"}

Top(from) == from[Len(from)]

SetTop(from, op) == [from EXCEPT ![Len(from)] = op]

NoOutput == [kind |-> "NoOutput"]
DummyOutput == [kind |-> "DummyOutput"]

(***************************************************************************)
(* The lowering functions.                                                 *)
(***************************************************************************)
lowerIterValue(in, from) ==
    IF in.wildcard THEN reject("RejectWildcardCrossJoin")
    ELSE IF in.value = "path"
         THEN Ok(Append(from, [kind |-> "Unnest"]))
         ELSE IF in.value = "unpivot" THEN reject("RejectUnpivot")
              ELSE reject("RejectCrossJoinNonPath")

lowerFilter(in, from) == Ok(Append(from, [kind |-> "Filter", expr |-> in.where]))

lowerDistinct(in, from) == Ok(Append(from, [kind |-> "Distinct", limit |-> 0]))

\* mutants of lowerLimit: the count test made after the type switch; the
\* offset test of the Distinct case left out
lowerLimit_CountLast(in, from) ==
    LET f == Top(from) IN
    CASE f.kind = "HashAggregate" ->
             IF in.offset # 0 THEN reject("RejectOffsetHashAggregate")
             ELSE Ok(SetTop(from, [f EXCEPT !.limit = in.count]))
      [] f.kind = "OrderBy" ->
             Ok(SetTop(from, [f EXCEPT !.limit = in.count, !.offset = in.offset]))
      [] f.kind = "Distinct" ->
             IF in.offset # 0 THEN reject("RejectOffsetDistinct")
             ELSE Ok(SetTop(from, [f EXCEPT !.limit = in.count]))
      [] OTHER ->
             IF in.count = 0 THEN Ok(<<NoOutput>>)
             ELSE IF in.offset # 0 THEN reject("RejectOffsetNoOrder")
                  ELSE Ok(Append(from, [kind |-> "Limit", num |-> in.count]))

lowerLimit_DistinctOffset(in, from) ==
    IF in.count = 0 THEN Ok(<<NoOutput>>)
    ELSE LET f == Top(from) IN
         CASE f.kind = "HashAggregate" ->
                  IF in.offset # 0 THEN reject("RejectOffsetHashAggregate")
                  ELSE Ok(SetTop(from, [f EXCEPT !.limit = in.count]))
           [] f.kind = "OrderBy" ->
                  Ok(SetTop(from, [f EXCEPT !.limit = in.count,
                                            !.offset = in.offset]))
           [] f.kind = "Distinct" ->
                  Ok(SetTop(from, [f EXCEPT !.limit = in.count]))
           [] OTHER ->
                  IF in.offset # 0 THEN reject("RejectOffsetNoOrder")
                  ELSE Ok(Append(from, [kind |-> "Limit", num |-> in.count]))

lowerLimit(in, from) ==
    IF in.count = 0 THEN Ok(<<NoOutput>>)
    ELSE LET f == Top(from) IN
         CASE f.kind = "HashAggregate" ->
                  IF in.offset # 0 THEN reject("RejectOffsetHashAggregate")
                  ELSE Ok(SetTop(from, [f EXCEPT !.limit = in.count]))
           [] f.kind = "OrderBy" ->
                  Ok(SetTop(from, [f EXCEPT !.limit = in.count,
                                            !.offset = in.offset]))
           [] f.kind = "Distinct" ->
                  IF in.offset # 0 THEN reject("RejectOffsetDistinct")
                  ELSE Ok(SetTop(from, [f EXCEPT !.limit = in.count]))
           [] OTHER ->
                  IF in.offset # 0 THEN reject("RejectOffsetNoOrder")
                  ELSE Ok(Append(from, [kind |-> "Limit", num |-> in.count]))

iscountstar(a) ==
    IF Len(a) # 1 THEN FALSE
    ELSE IF a[1].filter THEN FALSE
         ELSE a[1].star

lowerAggregate(in, from) ==
    IF in.groupBy = <<>>
    THEN IF iscountstar(in.agg)
         THEN Ok(Append(from, [kind |-> "CountStar", as |-> in.agg[1].result]))
         ELSE Ok(Append(from, [kind |-> "SimpleAggregate", outputs |-> in.agg]))
    ELSE Ok(Append(from, [kind |-> "HashAggregate", agg |-> in.agg,
                          by |-> in.groupBy, orderBy |-> <<>>, limit |-> 0]))

\* the first index (1-based) of names whose entry ex identifies, 0 if none
FirstIdent(names, ex) ==
    IF \E i \in 1..Len(names) : IsIdentifier(ex, names[i])
    THEN CHOOSE i \in 1..Len(names) :
             /\ IsIdentifier(ex, names[i])
             /\ \A j \in 1..(i - 1) : ~IsIdentifier(ex, names[j])
    ELSE 0

AggNames(ha) == [i \in 1..Len(ha.agg) |-> ha.agg[i].result]

\* whether the inner loops of lowerOrder find the column among the results
CanOrderBy(ha, c) ==
    FirstIdent(AggNames(ha), c.column) # 0 \/ FirstIdent(ha.by, c.column) # 0

\* the HashOrder entry lowerOrder appends for a column it finds
HashOrderOf(ha, c) ==
    LET a == FirstIdent(AggNames(ha), c.column)
        g == FirstIdent(ha.by, c.column)
    IN  IF a # 0
        THEN [column |-> a - 1, desc |-> c.desc, nullsLast |-> c.nullsLast]
        ELSE [column |-> Len(ha.agg) + (g - 1), desc |-> c.desc,
              nullsLast |-> c.nullsLast]

\* mutant of IsConstant: *expr.Rational missing from the type switch
IsConstant_NoRational(ex) == ex.kind \in LiteralKinds \ {"rational"}

\* the constant columns lowerOrder skips (the type switch of lines 179-183)
IsConstant(ex) == ex.kind \in LiteralKinds

OrderByColumn(c) == [node |-> c.column, desc |-> c.desc, nullsLast |-> c.nullsLast]

\* mutant of lowerOrder: duplicates are looked for before the constant
\* columns are skipped
lowerOrder_DupFirst(in, from) ==
    IF Top(from).kind = "HashAggregate"
    THEN LET ha == Top(from) IN
         IF \E i \in 1..Len(in.columns) : ~CanOrderBy(ha, in.columns[i])
         THEN Fail("CannotOrderBy")
         ELSE Ok(SetTop(from, [ha EXCEPT !.orderBy =
                    ha.orderBy \o [i \in 1..Len(in.columns) |->
                                      HashOrderOf(ha, in.columns[i])]]))
    ELSE LET kept    == SelectSeq(in.columns, LAMBDA c : ~IsConstant(c.column))
             columns == [i \in 1..Len(kept) |-> OrderByColumn(kept[i])]
         IN  IF \E i \in 1..Len(in.columns) : \E j \in (i + 1)..Len(in.columns) :
                    Equivalent(in.columns[i].column, in.columns[j].column)
             THEN Fail("DuplicateOrderBy")
             ELSE IF Len(columns) = 0 THEN Ok(from)
                  ELSE Ok(Append(from, [kind |-> "OrderBy", columns |-> columns,
                                        limit |-> 0, offset |-> 0]))

lowerOrder(in, from) ==
    IF Top(from).kind = "HashAggregate"
    THEN LET ha == Top(from) IN
         IF \E i \in 1..Len(in.columns) : ~CanOrderBy(ha, in.columns[i])
         THEN Fail("CannotOrderBy")
         ELSE Ok(SetTop(from, [ha EXCEPT !.orderBy =
                    ha.orderBy \o [i \in 1..Len(in.columns) |->
                                      HashOrderOf(ha, in.columns[i])]]))
    ELSE LET kept    == SelectSeq(in.columns, LAMBDA c : ~IsConstant(c.column))
             columns == [i \in 1..Len(kept) |-> OrderByColumn(kept[i])]
         IN  IF Len(columns) = 0 THEN Ok(from)
             ELSE IF \E i \in 1..Len(columns) : \E j \in (i + 1)..Len(columns) :
                        Equivalent(columns[i].node, columns[j].node)
                  THEN Fail("DuplicateOrderBy")
                  ELSE Ok(Append(from, [kind |-> "OrderBy", columns |-> columns,
                                        limit |-> 0, offset |-> 0]))

lowerBind(in, from) == Ok(Append(from, [kind |-> "Project"]))

lowerOutputPart(n, e, input) ==
    IF e.upload /\ e.uploader
    THEN Ok(Append(input, [kind |-> "OutputPart", basename |-> n.basename]))
    ELSE Fail("NoUploadEnv")

lowerOutputIndex(n, e, input) ==
    IF e.upload /\ e.uploader
    THEN Ok(Append(input, [kind |-> "OutputIndex", table |-> n.table,
                           basename |-> n.basename, key |-> e.key]))
    ELSE Fail("NoUploadEnv")

\* the switch of walkBuild over the non-terminal steps
lowerStep(in, e, input) ==
    CASE in.kind = "IterValue"   -> lowerIterValue(in, input)
      [] in.kind = "Filter"      -> lowerFilter(in, input)
      [] in.kind = "Distinct"    -> lowerDistinct(in, input)
      [] in.kind = "Bind"        -> lowerBind(in, input)
      [] in.kind = "Aggregate"   -> lowerAggregate(in, input)
      [] in.kind = "Limit"       -> lowerLimit(in, input)
      [] in.kind = "Order"       -> lowerOrder(in, input)
      [] in.kind = "OutputIndex" -> lowerOutputIndex(in, e, input)
      [] in.kind = "OutputPart"  -> lowerOutputPart(in, e, input)
      [] OTHER                   -> Fail("UnknownStep")

(***************************************************************************)
(* Table handles, Subtables and doSplit.  A handle is either a compound    *)
(* handle (the type tableHandles: c = TRUE, subs its sub-handles) or any   *)
(* other TableHandle, named by id.  A Subtables value is an interface      *)
(* value: nil, or a list of subtables.  The Splitter is a function from    *)
(* the id of a handle to what Split returns for it: -1 for an error, else  *)
(* the number of subtables, each tagged with the call that produced it.    *)
(***************************************************************************)
Tables == {"t1", "t2"}

LeafIds == {"a", "b"}

Handle(id) == [c |-> FALSE, id |-> id, subs |-> <<>>]

Handles(subs) == [c |-> TRUE, id |-> "", subs |-> subs]

NilSubtables == [nil |-> TRUE, tbls |-> <<>>]

Subtables(tbls) == [nil |-> FALSE, tbls |-> tbls]

SubAppend(out, sub) == Subtables(out.tbls \o sub.tbls)

Split(s, tbl, th) ==
    IF s[th.id] < 0
    THEN [err |-> "SplitError", out |-> NilSubtables,
          calls |-> <<[tbl |-> tbl, th |-> th]>>]
    ELSE [err |-> "none",
          out |-> Subtables([k \in 1..s[th.id] |->
                                [tbl |-> tbl, h |-> th.id, part |-> k]]),
          calls |-> <<[tbl |-> tbl, th |-> th]>>]

RECURSIVE doSplit(_, _, _)
RECURSIVE doSplitLoop(_, _, _, _, _, _)

\* mutants of the loop of doSplit: a Split error does not end the loop; the
\* results are appended in front of what was collected
RECURSIVE doSplitLoop_NoAbort(_, _, _, _, _, _)
doSplitLoop_NoAbort(s, tbl, hs, i, out, calls) ==
    IF i > Len(hs) THEN [err |-> "none", out |-> out, calls |-> calls]
    ELSE LET r == doSplit(s, tbl, hs[i]) IN
         doSplitLoop_NoAbort(s, tbl, hs, i + 1,
             IF r.err # "none" THEN out
             ELSE IF out.nil THEN r.out ELSE SubAppend(out, r.out),
             calls \o r.calls)

\* the loop of doSplit from index i on (lines 258-270)
doSplitLoop(s, tbl, hs, i, out, calls) ==
    IF i > Len(hs) THEN [err |-> "none", out |-> out, calls |-> calls]
    ELSE LET r == doSplit(s, tbl, hs[i]) IN
         IF r.err # "none"
         THEN [err |-> r.err, out |-> NilSubtables, calls |-> calls \o r.calls]
         ELSE doSplitLoop(s, tbl, hs, i + 1,
                          IF out.nil THEN r.out ELSE SubAppend(out, r.out),
                          calls \o r.calls)

doSplit(s, tbl, th) ==
    IF ~th.c THEN Split(s, tbl, th)
    ELSE doSplitLoop(s, tbl, th.subs, 1, NilSubtables, <<>>)

(***************************************************************************)
(* The input table of a walker: input.stat, input.merge, walker.put.       *)
(* Field paths are numbered in their sort order.  The handle of an input   *)
(* is absent (nil) or the handle stat returned, which records the          *)
(* arguments of that stat call.                                            *)
(***************************************************************************)
NoHandle == [nil |-> TRUE]

\* the handle the stat of the environment returns: its shape is e[table]
StatHandle(e, table, hints) ==
    [nil |-> FALSE, th |-> e[table], table |-> table, hints |-> hints]

\* the input built by put for an IterTable (lines 384-391)
NewInput(it) ==
    [table  |-> it.table,
     hints  |-> [filter |-> it.filter, fields |-> it.fields,
                 allFields |-> it.wildcard],
     handle |-> NoHandle]

RECURSIVE SortedSeq(_)
\* the elements of a set of numbers in increasing order
SortedSeq(S) ==
    IF S = {} THEN <<>>
    ELSE LET x == CHOOSE y \in S : \A z \in S : y <= z
         IN  <<x>> \o SortedSeq(S \ {x})

\* slices.Compact(slices.Sort(fields))
SortCompact(fields) == SortedSeq({fields[k] : k \in 1..Len(fields)})

\* mutant of merge: the whole hints are compared, not the filter alone
merge_CompareHints(i, in) ==
    IF i.table # in.table THEN [ok |-> FALSE, i |-> i]
    ELSE IF i.hints # in.hints THEN [ok |-> FALSE, i |-> i]
    ELSE [ok |-> TRUE, i |-> [i EXCEPT !.handle = NoHandle]]

\* mutant of merge: the cached handle survives the merge
merge_KeepHandle(i, in) ==
    IF i.table # in.table THEN [ok |-> FALSE, i |-> i]
    ELSE IF i.hints.filter # in.hints.filter THEN [ok |-> FALSE, i |-> i]
    ELSE IF i.hints.allFields THEN [ok |-> TRUE, i |-> i]
         ELSE IF in.hints.allFields
              THEN [ok |-> TRUE,
                    i |-> [i EXCEPT !.hints.fields = <<>>, !.hints.allFields = TRUE]]
              ELSE [ok |-> TRUE,
                    i |-> [i EXCEPT !.hints.fields =
                              SortCompact(i.hints.fields \o in.hints.fields)]]

\* input.merge: whether in was merged into i, and i afterwards
merge(i, in) ==
    IF i.table # in.table THEN [ok |-> FALSE, i |-> i]
    ELSE IF i.hints.filter # in.hints.filter THEN [ok |-> FALSE, i |-> i]
    ELSE LET j == [i EXCEPT !.handle = NoHandle] IN
         IF j.hints.allFields THEN [ok |-> TRUE, i |-> j]
         ELSE IF in.hints.allFields
              THEN [ok |-> TRUE,
                    i |-> [j EXCEPT !.hints.fields = <<>>, !.hints.allFields = TRUE]]
              ELSE [ok |-> TRUE,
                    i |-> [j EXCEPT !.hints.fields =
                              SortCompact(j.hints.fields \o in.hints.fields)]]

\* mutant of put: a merge is not followed by the return of its index
put_NoReturn(inputs, it) ==
    LET in == NewInput(it)
        hit == {k \in 1..Len(inputs) : merge(inputs[k], in).ok}
    IN  IF hit # {}
        THEN LET k == CHOOSE x \in hit : \A y \in hit : x <= y IN
             [inputs |-> [inputs EXCEPT ![k] = merge(inputs[k], in).i],
              idx |-> Len(inputs), merged |-> TRUE]
        ELSE [inputs |-> Append(inputs, in), idx |-> Len(inputs), merged |-> FALSE]

\* walker.put: the inputs afterwards and the index returned (0-based)
put(inputs, it) ==
    LET in == NewInput(it)
        hit == {k \in 1..Len(inputs) : merge(inputs[k], in).ok}
    IN  IF hit # {}
        THEN LET k == CHOOSE x \in hit : \A y \in hit : x <= y IN
             [inputs |-> [inputs EXCEPT ![k] = merge(inputs[k], in).i],
              idx |-> k - 1, merged |-> TRUE]
        ELSE [inputs |-> Append(inputs, in), idx |-> Len(inputs), merged |-> FALSE]

\* input.stat when it succeeds: the input afterwards, its handle cached
stat(i, e) ==
    IF ~i.handle.nil THEN i
    ELSE [i EXCEPT !.handle = StatHandle(e, i.table, i.hints)]

\* walker.finish when every stat succeeds: the inputs afterwards and the
\* []Input it returns
finish(inputs, e) ==
    LET after == [k \in 1..Len(inputs) |-> stat(inputs[k], e)] IN
    [inputs |-> after,
     out |-> [k \in 1..Len(inputs) |->
                 [table |-> after[k].table, handle |-> after[k].handle]]]

\* the inputs whose stat calls the environment, and so may fail
Unstatted(inputs) == {k \in 1..Len(inputs) : inputs[k].handle.nil}

(***************************************************************************)
(* Inputs of the lowering functions.                                       *)
(***************************************************************************)
Col(ex, d, nl) == [column |-> ex, desc |-> d, nullsLast |-> nl]

OrderCols ==
    {Col(PathN, TRUE, FALSE), Col(PathK, FALSE, TRUE), Col(CallK, FALSE, FALSE)}
    \cup {Col(Literal(kd), FALSE, FALSE) : kd \in LiteralKinds}

OrderSteps == [kind : {"Order"}, columns : SeqsUpTo(OrderCols, MaxCols)]

\* the Order steps of SpecLower: at most one column
ShortOrderSteps ==
    [kind : {"Order"},
     columns : {<<>>, <<Col(PathN, TRUE, FALSE)>>, <<Col(PathK, FALSE, TRUE)>>,
                <<Col(Literal("integer"), FALSE, FALSE)>>}]

LimitSteps == [kind : {"Limit"}, count : 0..MaxCount, offset : 0..MaxOffset]

Agg(res, star, filter) == [result |-> res, star |-> star, filter |-> filter]

AggLists ==
    {<<Agg("n", TRUE, FALSE)>>, <<Agg("n", TRUE, TRUE)>>,
     <<Agg("m", FALSE, FALSE), Agg("n", FALSE, FALSE)>>}

AggregateSteps ==
    [kind : {"Aggregate"}, agg : AggLists, groupBy : {<<>>, <<"k">>, <<"n", "k">>}]

IterValueSteps ==
    {[kind |-> "IterValue", wildcard |-> TRUE, value |-> "path"],
     [kind |-> "IterValue", wildcard |-> FALSE, value |-> "path"],
     [kind |-> "IterValue", wildcard |-> FALSE, value |-> "unpivot"],
     [kind |-> "IterValue", wildcard |-> FALSE, value |-> "other"]}

FilterStep == [kind |-> "Filter", where |-> "w"]
DistinctStep == [kind |-> "Distinct"]
BindStep == [kind |-> "Bind"]
OutputPartStep == [kind |-> "OutputPart", basename |-> "b"]
OutputIndexStep == [kind |-> "OutputIndex", table |-> "t", basename |-> "b"]

\* an Env without the UploadEnv methods, and the UploadEnvs: whether
\* Uploader() and Key() return non-nil
NoEnv == [upload |-> FALSE, uploader |-> FALSE, key |-> FALSE]
Envs == {NoEnv} \cup [upload : {TRUE}, uploader : BOOLEAN, key : BOOLEAN]

NoStep == [kind |-> "none"]

Leaf(i) == [kind |-> "Leaf", input |-> i]

(***************************************************************************)
(* Idle values of the four groups of variables.                            *)
(***************************************************************************)
LowerIdle ==
    /\ lwCur = <<>> /\ lwFrom = <<>> /\ lwStep = NoStep /\ lwEnv = NoEnv
    /\ lwRes = Ok(<<>>) /\ lwN = 0

SplitIdle == spHandle = Nil /\ spSplit = Nil /\ spRes = [done |-> FALSE]

QueueIdle ==
    /\ qpc = "idle" /\ qLogf = FALSE
    /\ qInputs = <<>> /\ qStatus = <<>> /\ qIndirect = <<>> /\ qFiltered = <<>>
    /\ subdefs = {} /\ qTodo = {}
    /\ qNext = <<>> /\ qFin = <<>> /\ qClosed = 0 /\ qLog = <<>>

WalkIdle ==
    /\ pc = "idle" /\ env = Nil /\ wk = <<>> /\ nd = <<>> /\ stk = <<>>
    /\ cur = <<>> /\ tree = [done |-> FALSE] /\ putLog = <<>>
    /\ lum = [done |-> FALSE]

(***************************************************************************)
(* SpecLower and SpecOrder: walkBuild lowering the steps above a terminal  *)
(* IterTable one after another, each step given the operator the step      *)
(* before it returned (walkBuild, lines 431-456).  The pass stops at the   *)
(* first error.                                                            *)
(***************************************************************************)
LowerInit ==
    /\ lwCur = <<Leaf(0)>> /\ lwFrom = <<>> /\ lwStep = NoStep /\ lwEnv = NoEnv
    /\ lwRes = Ok(<<Leaf(0)>>) /\ lwN = 0
    /\ SplitIdle /\ WalkIdle /\ QueueIdle

Lower(in, e, bound) ==
    /\ lwRes.err = "none"
    /\ lwN < bound
    /\ LET r == lowerStep(in, e, lwCur) IN
        /\ r.err = "none" /\ Top(r.op).kind = "HashAggregate"
              => Len(Top(r.op).orderBy) <= MaxOrderBy
        /\ lwFrom' = lwCur
        /\ lwStep' = in
        /\ lwEnv' = e
        /\ lwRes' = r
        /\ lwCur' = IF r.err = "none" THEN r.op ELSE lwCur
        /\ lwN' = lwN + 1
    /\ UNCHANGED <<splitVars, walkVars, queueVars>>

LowerIterValue == \E in \in IterValueSteps : Lower(in, NoEnv, MaxLowerSteps)
LowerFilter == Lower(FilterStep, NoEnv, MaxLowerSteps)
LowerDistinct == Lower(DistinctStep, NoEnv, MaxLowerSteps)
LowerBind == Lower(BindStep, NoEnv, MaxLowerSteps)
LowerAggregate == \E in \in AggregateSteps : Lower(in, NoEnv, MaxLowerSteps)
LowerLimit == \E in \in LimitSteps : Lower(in, NoEnv, MaxLowerSteps)
LowerShortOrder == \E in \in ShortOrderSteps : Lower(in, NoEnv, MaxLowerSteps)
LowerOutputPart == \E e \in Envs : Lower(OutputPartStep, e, MaxLowerSteps)
LowerOutputIndex == \E e \in Envs : Lower(OutputIndexStep, e, MaxLowerSteps)

LowerNext ==
    \/ LowerIterValue
    \/ LowerFilter
    \/ LowerDistinct
    \/ LowerBind
    \/ LowerAggregate
    \/ LowerLimit
    \/ LowerShortOrder
    \/ LowerOutputPart
    \/ LowerOutputIndex

SpecLower == LowerInit /\ [][LowerNext]_vars

\* the operators an Order step can find upstream: the terminal Leaf or one
\* step lowered over it
OrderUpstreams ==
    {<<Leaf(0)>>}
    \cup {lowerStep(in, NoEnv, <<Leaf(0)>>).op :
              in \in {FilterStep, DistinctStep} \cup AggregateSteps}

OrderInit ==
    /\ lwCur \in OrderUpstreams
    /\ lwFrom = <<>> /\ lwStep = NoStep /\ lwEnv = NoEnv
    /\ lwRes = Ok(lwCur) /\ lwN = 0
    /\ SplitIdle /\ WalkIdle /\ QueueIdle

LowerOrder == \E in \in OrderSteps : Lower(in, NoEnv, MaxOrderSteps)

OrderNext == LowerOrder

SpecOrder == OrderInit /\ [][OrderNext]_vars

(***************************************************************************)
(* SpecSplit: doSplit applied to one handle.  The sub-handles of a         *)
(* compound handle are plain handles or compound handles of plain          *)
(* handles; a nested compound handle has at least one sub-handle.          *)
(***************************************************************************)
PlainHandles == {Handle(id) : id \in LeafIds}

InnerHandles ==
    {Handles(subs) : subs \in SeqsUpTo(PlainHandles, MaxSub) \ {<<>>}}

SplitHandles ==
    PlainHandles
    \cup {Handles(subs) : subs \in SeqsUpTo(PlainHandles \cup InnerHandles, MaxSub)}

Splitters == [LeafIds -> -1..MaxParts]

SplitInit ==
    /\ spHandle \in SplitHandles
    /\ spSplit \in Splitters
    /\ spRes = [done |-> FALSE]
    /\ LowerIdle /\ WalkIdle /\ QueueIdle

DoSplit ==
    /\ ~spRes.done
    /\ \E tbl \in Tables :
           spRes' = [done |-> TRUE, tbl |-> tbl, r |-> doSplit(spSplit, tbl, spHandle)]
    /\ UNCHANGED <<spHandle, spSplit, lowerVars, walkVars, queueVars>>

SplitNext == DoSplit

SpecSplit == SplitInit /\ [][SplitNext]_vars

(***************************************************************************)
(* Spec: toTree.  The trace is revealed as it is walked: walkBuild goes    *)
(* down a trace to its terminal step (through a UnionMap step, which puts  *)
(* its inner table first), and toNode then lowers the correlated           *)
(* sub-traces (in.Replacements).  The steps above the terminal step touch  *)
(* no walker: their lowering is the subject of SpecLower.  A tree holds at *)
(* most one UnionMap (no nested split queries, lines 222-227).  stk holds  *)
(* the pending lowerUnionMap and toNode calls, the innermost last.  An     *)
(* error ends the pass (pc = "error"): no tree is returned.                *)
(***************************************************************************)
IterTable(table, filter, fields, wildcard) ==
    [table |-> table, filter |-> filter, fields |-> fields, wildcard |-> wildcard]

IterTables ==
    {IterTable("t1", Nil, <<1>>, FALSE), IterTable("t1", Nil, <<2>>, FALSE),
     IterTable("t1", "f", <<>>, TRUE), IterTable("t2", Nil, <<1>>, FALSE)}

\* the inner tables of the UnionMap steps of the pass
UnionTables == {IterTable("t1", Nil, <<1>>, FALSE), IterTable("t1", "f", <<>>, TRUE)}

\* the handles the environment returns: plain, compound of none, compound of two
WalkShapes == {Handle("a"), Handles(<<>>), Handles(<<Handle("a"), Handle("b")>>)}

\* the splitters of the pass: Split fails, returns no subtable, returns one
WalkSplitters == {[id \in LeafIds |-> k] : k \in {-1, 0, 1}}

\* the environments of the pass: stat returns handles of one shape
WalkEnvs == {[t \in Tables |-> sh] : sh \in WalkShapes}

\* the environment before the first stat call
UnknownEnv == [t \in Tables |-> Handle("?")]

\* the environments a stat call can find
EnvChoices == IF env = UnknownEnv THEN WalkEnvs ELSE {env}

NodeFrame(n, w) == [f |-> "toNode", node |-> n, w |-> w, sub |-> 0, nrepl |-> 0, i |-> 0]

UnionFrame(n, w, input, tbl) ==
    [f |-> "union", node |-> n, w |-> w, input |-> input, tbl |-> tbl]

NewWalker == [inputs |-> <<>>]

NewNode(parent, w) ==
    [parent |-> parent, w |-> w, op |-> <<>>, inputs |-> <<>>, done |-> FALSE]

Frame == stk[Len(stk)]

Pop(q) == SubSeq(q, 1, Len(q) - 1)

LogPut(kind, r, it) ==
    Append(putLog, [kind |-> kind, node |-> Frame.node, w |-> Frame.w,
                    idx |-> r.idx, merged |-> r.merged, it |-> it])

Unions == {k \in 1..Len(putLog) : putLog[k].kind = "union"}

RECURSIVE Pending(_)
\* the sub-traces the toNode calls of q have still to lower
Pending(q) ==
    IF q = <<>> THEN 0
    ELSE (IF q[1].f = "toNode" THEN q[1].nrepl - q[1].i ELSE 0) + Pending(Tail(q))

\* toTree, lines 498-503: the root walker, and toNode called on the root
Init ==
    /\ pc = "walk"
    /\ env = UnknownEnv
    /\ wk = <<NewWalker>>
    /\ nd = <<NewNode(0, 1)>>
    /\ stk = <<NodeFrame(1, 1)>>
    /\ cur = <<>>
    /\ tree = [done |-> FALSE]
    /\ putLog = <<>>
    /\ lum = [done |-> FALSE]
    /\ LowerIdle /\ SplitIdle /\ QueueIdle

\* walkBuild on a UnionMap step: lowerUnionMap, lines 221-228, up to the
\* call of walkBuild on the final step of the child trace
WalkUnionMap ==
    /\ pc = "walk"
    /\ Unions = {}
    /\ \E it \in UnionTables :
         LET r == put(wk[Frame.w].inputs, it) IN
         /\ wk' = [wk EXCEPT ![Frame.w].inputs = r.inputs]
         /\ putLog' = LogPut("union", r, it)
         /\ stk' = Append(stk, UnionFrame(Frame.node, Frame.w, r.idx, it.table))
    /\ UNCHANGED <<pc, env, nd, cur, tree, lum, lowerVars, splitVars, queueVars>>

\* walkBuild on the terminal IterTable, lines 404-417
WalkIterTable ==
    /\ pc = "walk"
    /\ \E it \in IterTables :
         LET r == put(wk[Frame.w].inputs, it) IN
         /\ wk' = [wk EXCEPT ![Frame.w].inputs = r.inputs]
         /\ putLog' = LogPut("leaf", r, it)
         /\ cur' = IF it.filter # Nil
                   THEN <<Leaf(r.idx), [kind |-> "Filter", expr |-> it.filter]>>
                   ELSE <<Leaf(r.idx)>>
    /\ pc' = "up"
    /\ UNCHANGED <<env, nd, stk, tree, lum, lowerVars, splitVars, queueVars>>

\* walkBuild on a terminal NoOutput, lines 419-421 (a terminal DummyOutput,
\* lines 422-424, differs in the name of the operator alone)
WalkNoOutput ==
    /\ pc = "walk"
    /\ cur' = <<NoOutput>>
    /\ pc' = "up"
    /\ UNCHANGED <<env, wk, nd, stk, tree, putLog, lum, lowerVars, splitVars, queueVars>>

\* what lowerUnionMap reports of one call
LumRecord(outcome, err, handle, r, op) ==
    [done |-> TRUE, outcome |-> outcome, err |-> err, node |-> Frame.node,
     w |-> Frame.w,
     input |-> Frame.input, tbl |-> Frame.tbl, handle |-> handle,
     split |-> r, from |-> cur, op |-> op]

NoSplit == [err |-> "none", out |-> NilSubtables, calls |-> <<>>]

\* lowerUnionMap, lines 229-248, once walkBuild has lowered the child trace:
\* stat of the inner table, doSplit, and the operator returned
LowerUnionMapReturn ==
    /\ pc = "up"
    /\ Frame.f = "union"
    /\ LET k == Frame.input + 1
           i == wk[Frame.w].inputs[k]
       IN
       \/ \* the stat of the environment fails
          /\ i.handle.nil
          /\ lum' = LumRecord("error", "StatError", NoHandle, NoSplit, <<>>)
          /\ pc' = "error"
          /\ UNCHANGED <<env, wk, cur, stk>>
       \/ \E s \in WalkSplitters, e \in (IF i.handle.nil THEN EnvChoices ELSE {env}) :
            LET j == stat(i, e)
                r == doSplit(s, Frame.tbl, j.handle.th)
            IN
            /\ env' = e
            /\ wk' = [wk EXCEPT ![Frame.w].inputs[k] = j]
            /\ IF r.err # "none"
               THEN /\ lum' = LumRecord("error", r.err, j.handle, r, <<>>)
                    /\ pc' = "error"
                    /\ UNCHANGED <<cur, stk>>
               ELSE IF r.out.nil
               THEN \* tbls.Len() on a nil Subtables
                    /\ lum' = LumRecord("panic", "none", j.handle, r, <<>>)
                    /\ pc' = "panic"
                    /\ UNCHANGED <<cur, stk>>
               ELSE IF Len(r.out.tbls) = 0
               THEN /\ lum' = LumRecord("NoOutput", "none", j.handle, r, <<NoOutput>>)
                    /\ cur' = <<NoOutput>>
                    /\ stk' = Pop(stk)
                    /\ pc' = "up"
               ELSE LET op == Append(cur, [kind |-> "UnionMap", orig |-> Frame.input,
                                           sub |-> r.out])
                    IN  /\ lum' = LumRecord("UnionMap", "none", j.handle, r, op)
                        /\ cur' = op
                        /\ stk' = Pop(stk)
                        /\ pc' = "up"
    /\ UNCHANGED <<nd, tree, putLog, lowerVars, splitVars, queueVars>>

\* toNode, lines 516-526: walkBuild returned the operator of the trace; the
\* walker of the sub-traces is created
ToNodeOp ==
    /\ pc = "up"
    /\ Frame.f = "toNode"
    /\ \E n \in 0..(MaxNodes - Len(nd) - Pending(stk)) :
         stk' = [stk EXCEPT ![Len(stk)].sub = Len(wk) + 1, ![Len(stk)].nrepl = n]
    /\ nd' = [nd EXCEPT ![Frame.node].op = cur]
    /\ wk' = Append(wk, NewWalker)
    /\ cur' = <<>>
    /\ pc' = "loop"
    /\ UNCHANGED <<env, tree, putLog, lum, lowerVars, splitVars, queueVars>>

\* mutant of SubWalker: the sub-traces are lowered by the walker of the trace
SubWalker_Same(fr) == fr.w

\* the walker toNode lowers the sub-traces with (sub, lines 523-529)
SubWalker(fr) == fr.sub

\* toNode, lines 527-529: the next sub-trace is lowered by the walker sub
ToNodeChild ==
    /\ pc = "loop"
    /\ Frame.i < Frame.nrepl
    /\ nd' = Append(nd, NewNode(Frame.node, SubWalker(Frame)))
    /\ stk' = Append([stk EXCEPT ![Len(stk)].i = Frame.i + 1],
                     NodeFrame(Len(nd) + 1, SubWalker(Frame)))
    /\ pc' = "walk"
    /\ UNCHANGED <<env, wk, cur, tree, putLog, lum, lowerVars, splitVars, queueVars>>

\* the environments walker.finish can find: it calls stat of the environment
\* for the inputs that hold no handle
StatEnvs(inputs) == IF Unstatted(inputs) = {} THEN {env} ELSE EnvChoices

\* walker.finish with the stat of input k failing: the inputs before it
\* are statted
finishFail(inputs, e, k) ==
    [j \in 1..Len(inputs) |-> IF j < k THEN stat(inputs[j], e) ELSE inputs[j]]

\* toNode, lines 534-539: the inputs of the walker sub become the inputs of
\* the node, and toNode returns
ToNodeFinish ==
    /\ pc = "loop"
    /\ Frame.i = Frame.nrepl
    /\ \E e \in StatEnvs(wk[Frame.sub].inputs) :
         /\ env' = e
         /\ \/ LET r == finish(wk[Frame.sub].inputs, e) IN
               /\ wk' = [wk EXCEPT ![Frame.sub].inputs = r.inputs]
               /\ nd' = [nd EXCEPT ![Frame.node].inputs = r.out,
                                   ![Frame.node].done = TRUE]
               /\ stk' = Pop(stk)
               /\ pc' = IF Len(stk) = 1 THEN "finish" ELSE "loop"
            \/ \E k \in Unstatted(wk[Frame.sub].inputs) :
               /\ wk' = [wk EXCEPT ![Frame.sub].inputs = finishFail(@, e, k)]
               /\ pc' = "error"
               /\ UNCHANGED <<nd, stk>>
    /\ UNCHANGED <<cur, tree, putLog, lum, lowerVars, splitVars, queueVars>>

\* toTree, lines 507-512: the inputs of the root walker become the inputs of
\* the tree
ToTreeFinish ==
    /\ pc = "finish"
    /\ \E e \in StatEnvs(wk[1].inputs) :
         /\ env' = e
         /\ \/ LET r == finish(wk[1].inputs, e) IN
               /\ wk' = [wk EXCEPT ![1].inputs = r.inputs]
               /\ tree' = [done |-> TRUE, inputs |-> r.out]
               /\ pc' = "done"
            \/ \E k \in Unstatted(wk[1].inputs) :
               /\ wk' = [wk EXCEPT ![1].inputs = finishFail(@, e, k)]
               /\ pc' = "error"
               /\ UNCHANGED tree
    /\ UNCHANGED <<nd, stk, cur, putLog, lum, lowerVars, splitVars, queueVars>>

Next ==
    \/ WalkUnionMap
    \/ WalkIterTable
    \/ WalkNoOutput
    \/ LowerUnionMapReturn
    \/ ToNodeOp
    \/ ToNodeChild
    \/ ToNodeFinish
    \/ ToTreeFinish

Spec == Init /\ [][Next]_vars

(***************************************************************************)
(* SpecQueue: QueueRunner.Run of package db (queue.go).  The queue, the    *)
(* file system and the table builder are the environment: every call of    *)
(* Next, of updateDefs, of the opening of a file and of Append has each of *)
(* its outcomes.  A queue item is its sequence number and its path; a      *)
(* table definition is its name and the patterns of its inputs.            *)
(***************************************************************************)
StatusOK == 0
StatusTryAgain == 1
StatusWriteError == 2

\* QueueStatus.Merge, lines 172-177
Merge(s, other) == IF s > other THEN s ELSE other

\* errResult, lines 179-186
errResult(err) ==
    IF err = "nil" THEN StatusOK
    ELSE IF err = "ErrBuildAgain" THEN StatusTryAgain
    ELSE StatusWriteError

Paths == {"x", "y"}

\* path.Match: "[" is a malformed pattern, "*" matches every path
Match(pattern, p) ==
    IF pattern = "[" THEN [match |-> FALSE, err |-> TRUE]
    ELSE [match |-> pattern = "*" \/ pattern = p, err |-> FALSE]

Definition(name, patterns) == [name |-> name, patterns |-> patterns]

Definitions == {Definition("ta", <<"x">>), Definition("tb", <<"[", "*">>)}

\* def has an input pattern matching the path p (lines 218-222)
Matches(def, p) ==
    \E j \in 1..Len(def.patterns) :
        LET m == Match(def.patterns[j], p) IN ~m.err /\ m.match

\* what the steps of lines 223-254 find for a matching item: a usable file,
\* no file, another ETag, or an error (of Split, open, Stat, ETag, UseHints)
FileOutcomes == {"ok", "notexist", "mismatch", "error"}

AppendOutcomes == {"nil", "ErrBuildAgain", "WriteError"}

QueueItem(id, p) == [id |-> id, path |-> p]

RECURSIVE filterLoop(_, _, _, _, _, _, _)
\* the loop of filter, lines 215-265, from the item of 1-based position i:
\* the first matching pattern decides; a missing file or another ETag is
\* logged through q.Logf (lines 230, 247: a call of a nil function panics)
\* and the item skipped; any other error ends filter with the items
\* accepted so far in q.indirect
filterLoop(ins, def, oc, logf, i, indirect, filtered) ==
    IF i > Len(ins)
    THEN [panic |-> FALSE, err |-> "nil", indirect |-> indirect, filtered |-> filtered]
    ELSE IF ~Matches(def, ins[i].path)
    THEN filterLoop(ins, def, oc, logf, i + 1, indirect, filtered)
    ELSE IF oc[i] = "error"
    THEN [panic |-> FALSE, err |-> "IOError", indirect |-> indirect,
          filtered |-> filtered]
    ELSE IF oc[i] \in {"notexist", "mismatch"}
    THEN IF logf
         THEN filterLoop(ins, def, oc, logf, i + 1, indirect, filtered)
         ELSE [panic |-> TRUE, err |-> "nil", indirect |-> indirect,
               filtered |-> filtered]
    ELSE filterLoop(ins, def, oc, logf, i + 1, Append(indirect, i - 1),
                    Append(filtered, ins[i].path))

\* filter, lines 211-267
filter(ins, def, oc, logf) == filterLoop(ins, def, oc, logf, 1, <<>>, <<>>)

RECURSIVE MergeAll(_, _, _)
\* lines 282-284: the status is merged into that of every item of q.indirect
MergeAll(status, indirect, st) ==
    IF indirect = <<>> THEN status
    ELSE MergeAll([status EXCEPT ![indirect[1] + 1] = Merge(@, st)],
                  Tail(indirect), st)

\* runTable, lines 269-285: ap is the outcome Append has if it is called
runTable(ins, status, def, oc, ap, logf) ==
    LET f        == filter(ins, def, oc, logf)
        appended == ~f.panic /\ f.err = "nil" /\ Len(f.filtered) > 0
        err      == IF appended THEN ap ELSE f.err
    IN  [panic |-> f.panic, err |-> err, appended |-> appended,
         indirect |-> f.indirect, filtered |-> f.filtered,
         status |-> IF f.panic THEN status
                    ELSE MergeAll(status, f.indirect, errResult(err))]

RECURSIVE bounce(_, _, _)
\* bounce, lines 300-304: Finalize is called on every item of lst
bounce(fin, lst, st) ==
    IF lst = <<>> THEN fin
    ELSE bounce(Append(fin, [item |-> lst[1].id, status |-> st]), Tail(lst), st)

RECURSIVE finalizeAll(_, _, _)
\* runBatches, lines 385-387: Finalize(q.inputs[i], q.status[i]) for every i
finalizeAll(fin, ins, status) ==
    IF ins = <<>> THEN fin
    ELSE finalizeAll(Append(fin, [item |-> ins[1].id, status |-> status[1]]),
                     Tail(ins), Tail(status))

\* history: the 0-based indices of the items a call of filter that did not
\* panic skipped for a missing file or another ETag (lines 229-232, 245-249)
Ignored(ins, def, oc) ==
    {i - 1 : i \in {k \in 1..Len(ins) :
        /\ Matches(def, ins[k].path)
        /\ oc[k] \in {"notexist", "mismatch"}
        /\ \A h \in 1..(k - 1) : Matches(def, ins[h].path) => oc[h] # "error"}}

\* Run is called (lines 347-349)
QueueInit ==
    /\ qpc = "gather"
    /\ qLogf \in BOOLEAN
    /\ qInputs = <<>> /\ qStatus = <<>> /\ qIndirect = <<>> /\ qFiltered = <<>>
    /\ subdefs = {} /\ qTodo = {}
    /\ qNext = <<>> /\ qFin = <<>> /\ qClosed = 0 /\ qLog = <<>>
    /\ LowerIdle /\ SplitIdle /\ WalkIdle

\* gather, lines 314-329: Next(-1) returns the first item of a batch
GatherFirst ==
    /\ qpc = "gather"
    /\ Len(qNext) < MaxItems
    /\ \E p \in Paths :
         LET item == QueueItem(Len(qNext) + 1, p) IN
         /\ qNext' = Append(qNext, item)
         /\ qInputs' = <<item>>
    /\ qpc' = "more"
    /\ qLog' = <<>>
    /\ UNCHANGED <<qLogf, qStatus, qIndirect, qFiltered, subdefs, qTodo, qFin,
                   qClosed, lowerVars, splitVars, walkVars>>

\* gather, lines 317-323, and Run, lines 353-359: Next(-1) returns an error
\* (io.EOF included) or no item; the queue is closed and Run returns
GatherFail ==
    /\ qpc = "gather"
    /\ qpc' = "returned"
    /\ qInputs' = <<>>
    /\ qClosed' = qClosed + 1
    /\ UNCHANGED <<qLogf, qStatus, qIndirect, qFiltered, subdefs, qTodo, qNext,
                   qFin, qLog, lowerVars, splitVars, walkVars>>

\* gather, lines 330-341: Next(u) returns one more item
GatherNext ==
    /\ qpc = "more"
    /\ Len(qInputs) < MaxBatch
    /\ Len(qNext) < MaxItems
    /\ \E p \in Paths :
         LET item == QueueItem(Len(qNext) + 1, p) IN
         /\ qNext' = Append(qNext, item)
         /\ qInputs' = Append(qInputs, item)
    /\ UNCHANGED <<qpc, qLogf, qStatus, qIndirect, qFiltered, subdefs, qTodo,
                   qFin, qClosed, qLog, lowerVars, splitVars, walkVars>>

\* gather, lines 330-342: the batch is full, the interval is over, or Next(u)
\* returns an error or no item; gather returns nil
GatherBreak ==
    /\ qpc = "more"
    /\ qpc' = "refresh"
    /\ UNCHANGED <<qLogf, qInputs, qStatus, qIndirect, qFiltered, subdefs, qTodo,
                   qNext, qFin, qClosed, qLog, lowerVars, splitVars, walkVars>>

\* Run, lines 360-367: updateDefs fails (lastRefresh is never set, so the
\* definitions are refreshed on every batch); the batch is bounced
UpdateDefsFail ==
    /\ qpc = "refresh"
    /\ subdefs' = {}
    /\ qFin' = bounce(qFin, qInputs, StatusWriteError)
    /\ qpc' = "gather"
    /\ UNCHANGED <<qLogf, qInputs, qStatus, qIndirect, qFiltered, qTodo, qNext,
                   qClosed, qLog, lowerVars, splitVars, walkVars>>

\* Run, lines 360-369, and runBatches, lines 374-381: updateDefs succeeds and
\* every status of the batch is set to StatusOK
UpdateDefs ==
    /\ qpc = "refresh"
    /\ \E ds \in SUBSET Definitions :
         subdefs' = ds /\ qTodo' = ds
    /\ qStatus' = [i \in 1..Len(qInputs) |-> StatusOK]
    /\ qpc' = "tables"
    /\ UNCHANGED <<qLogf, qInputs, qIndirect, qFiltered, qNext, qFin, qClosed,
                   qLog, lowerVars, splitVars, walkVars>>

\* runBatches, lines 382-384: runTable on the next definition of the map
RunTable ==
    /\ qpc = "tables"
    /\ \E def \in qTodo :
       \E oc \in [1..Len(qInputs) -> FileOutcomes] :
       \E ap \in AppendOutcomes :
         LET r == runTable(qInputs, qStatus, def, oc, ap, qLogf) IN
         /\ qStatus' = r.status
         /\ qIndirect' = r.indirect
         /\ qFiltered' = r.filtered
         /\ qTodo' = qTodo \ {def}
         /\ qLog' = Append(qLog, [def |-> def, err |-> r.err, panic |-> r.panic,
                                  appended |-> r.appended,
                                  indirect |-> r.indirect,
                                  ignored |-> Ignored(qInputs, def, oc)])
         /\ qpc' = IF r.panic THEN "panic" ELSE "tables"
    /\ UNCHANGED <<qLogf, qInputs, subdefs, qNext, qFin, qClosed,
                   lowerVars, splitVars, walkVars>>

\* runBatches, lines 385-387: every item of the batch is finalized
FinalizeBatch ==
    /\ qpc = "tables"
    /\ qTodo = {}
    /\ qFin' = finalizeAll(qFin, qInputs, qStatus)
    /\ qpc' = "gather"
    /\ UNCHANGED <<qLogf, qInputs, qStatus, qIndirect, qFiltered, subdefs, qTodo,
                   qNext, qClosed, qLog, lowerVars, splitVars, walkVars>>

QueueNext ==
    \/ GatherFirst \/ GatherFail \/ GatherNext \/ GatherBreak
    \/ UpdateDefsFail \/ UpdateDefs \/ RunTable \/ FinalizeBatch

SpecQueue == QueueInit /\ [][QueueNext]_vars

(***************************************************************************)
(* Claims about the lowering functions (SpecLower, SpecOrder).             *)
(***************************************************************************)

\* C4: a Limit step with count = 0 lowers to NoOutput without error,
\* whatever its offset and whatever operator the upstream lowered to.
C4_CountZeroLimit ==
    (lwStep.kind = "Limit" /\ lwStep.count = 0)
        => (lwRes.err = "none" /\ lwRes.op = <<NoOutput>>)

C4_Witness ==
    /\ lwStep.kind = "Limit" /\ lwStep.count = 0 /\ lwStep.offset > 0
    /\ Top(lwFrom).kind = "HashAggregate"
    /\ lwRes.op = <<NoOutput>>

\* C5 as claimed: a Limit step with offset > 0 over any operator other than
\* OrderBy always fails with an ErrNotSupported error and returns no operator.
C5_Original ==
    (lwStep.kind = "Limit" /\ lwStep.offset > 0 /\ Top(lwFrom).kind # "OrderBy")
        => (lwRes.err \in ErrNotSupported /\ lwRes.op = <<>>)

\* C5 as amended: a Limit step with count # 0 and offset > 0 over any operator
\* other than OrderBy fails with an ErrNotSupported error and returns no
\* operator; a Limit step with offset > 0 is lowered without error only over
\* an OrderBy or when its count is 0 (and then to NoOutput).
C5_OffsetPolicy ==
    /\ (lwStep.kind = "Limit" /\ lwStep.count # 0 /\ lwStep.offset > 0
            /\ Top(lwFrom).kind # "OrderBy")
          => (lwRes.err \in ErrNotSupported /\ lwRes.op = <<>>)
    /\ (lwStep.kind = "Limit" /\ lwStep.offset > 0 /\ lwRes.err = "none")
          => \/ Top(lwFrom).kind = "OrderBy" /\ Top(lwRes.op).kind = "OrderBy"
                   /\ Top(lwRes.op).offset = lwStep.offset
             \/ lwStep.count = 0 /\ lwRes.op = <<NoOutput>>

C5_Witness ==
    /\ lwStep.kind = "Limit" /\ lwStep.count > 0 /\ lwStep.offset > 0
    /\ Top(lwFrom).kind = "Distinct"
    /\ lwRes.err = "RejectOffsetDistinct"

AllLiteral(columns) ==
    \A i \in 1..Len(columns) : columns[i].column.kind \in LiteralKinds

\* C6 as claimed: an Order step all of whose columns are literals returns the
\* upstream operator unchanged and without error, over every upstream.
C6_Original ==
    (lwStep.kind = "Order" /\ AllLiteral(lwStep.columns))
        => lwRes = Ok(lwFrom)

\* C6 as amended: an Order step all of whose columns are literals returns the
\* upstream operator unchanged and without error when the upstream is not a
\* HashAggregate or the step has no columns; over a HashAggregate an Order
\* step with at least one literal column fails (cannot ORDER BY expression).
C6_ConstantOrder ==
    (lwStep.kind = "Order" /\ AllLiteral(lwStep.columns))
        => IF Top(lwFrom).kind = "HashAggregate" /\ lwStep.columns # <<>>
           THEN lwRes = Fail("CannotOrderBy")
           ELSE lwRes = Ok(lwFrom)

C6_Witness ==
    /\ lwStep.kind = "Order" /\ Len(lwStep.columns) = 2
    /\ lwStep.columns[1].column.kind = "rational"
    /\ lwStep.columns[2].column.kind = "string"
    /\ Top(lwFrom).kind = "Distinct"
    /\ lwRes = Ok(lwFrom)

\* the pairs of columns that survive the pruning and are equivalent
DuplicateSurvivors(columns) ==
    \E i \in 1..Len(columns) : \E j \in (i + 1)..Len(columns) :
        /\ columns[i].column.kind \notin LiteralKinds
        /\ columns[j].column.kind \notin LiteralKinds
        /\ columns[i].column.cls = columns[j].column.cls

\* C7: over an upstream that is not a HashAggregate, an Order step fails with
\* the duplicate-order error exactly when two of its non-literal columns are
\* equivalent; literal columns never cause the rejection.
C7_DuplicateOrder ==
    (lwStep.kind = "Order" /\ Top(lwFrom).kind # "HashAggregate")
        => (lwRes.err = "DuplicateOrderBy" <=> DuplicateSurvivors(lwStep.columns))

C7_Witness ==
    /\ lwStep.kind = "Order" /\ Top(lwFrom).kind # "HashAggregate"
    /\ lwStep.columns = <<Col(PathK, FALSE, TRUE), Col(CallK, FALSE, FALSE)>>
    /\ lwRes = Fail("DuplicateOrderBy")

\* C8 as claimed: OutputPart is produced only with a present uploader,
\* OutputIndex only with a present uploader and a signing key; in every other
\* case the output step fails with the missing-capability error.
C8_UploaderGating ==
    /\ lwStep.kind = "OutputPart" =>
          IF lwEnv.upload /\ lwEnv.uploader
          THEN lwRes.err = "none" /\ Top(lwRes.op).kind = "OutputPart"
          ELSE lwRes = Fail("NoUploadEnv")
    /\ lwStep.kind = "OutputIndex" =>
          IF lwEnv.upload /\ lwEnv.uploader /\ lwEnv.key
          THEN lwRes.err = "none" /\ Top(lwRes.op).kind = "OutputIndex"
          ELSE lwRes = Fail("NoUploadEnv")

(***************************************************************************)
(* Claims about doSplit (SpecSplit).                                       *)
(***************************************************************************)
RECURSIVE PlainOf(_)
\* the handles of th that are not compound, depth first and in order
PlainOf(th) ==
    IF ~th.c THEN <<th>>
    ELSE IF th.subs = <<>> THEN <<>>
         ELSE PlainOf(th.subs[1]) \o PlainOf(Handles(Tail(th.subs)))

RECURSIVE PartsOf(_, _, _)
\* the subtables Split returns for the handles hs, appended in order
PartsOf(s, tbl, hs) ==
    IF hs = <<>> THEN <<>>
    ELSE [k \in 1..s[hs[1].id] |-> [tbl |-> tbl, h |-> hs[1].id, part |-> k]]
         \o PartsOf(s, tbl, Tail(hs))

\* the number of Split calls doSplit makes on the handles hs: all of them, or
\* up to the first one that fails
CallsExpected(s, hs) ==
    IF \E i \in 1..Len(hs) : s[hs[i].id] < 0
    THEN CHOOSE i \in 1..Len(hs) :
             s[hs[i].id] < 0 /\ \A j \in 1..(i - 1) : s[hs[j].id] >= 0
    ELSE Len(hs)

\* C9 as claimed: for a compound handle of N sub-handles, no Split call
\* failing, Split is called exactly N times, once per sub-handle in order.
C9_Original ==
    (spRes.done /\ spHandle.c /\ spRes.r.err = "none")
        => /\ Len(spRes.r.calls) = Len(spHandle.subs)
           /\ \A i \in 1..Len(spHandle.subs) :
                  spRes.r.calls[i] = [tbl |-> spRes.tbl, th |-> spHandle.subs[i]]

\* C9 as amended: Split is called once per handle that is not compound,
\* depth first and in order (for a compound handle whose N sub-handles are
\* not compound: once per sub-handle, N times), each time with the same table
\* expression, up to and including the first call that fails; if a call fails
\* its error is returned with no Subtables; otherwise the result is the
\* in-order append of the results (nil when there was no call); a handle that
\* is not compound is split with exactly one call.
C9_CompoundSplit ==
    spRes.done =>
        LET hs == PlainOf(spHandle)
            n  == CallsExpected(spSplit, hs)
            r  == spRes.r
        IN  /\ r.calls = [i \in 1..n |-> [tbl |-> spRes.tbl, th |-> hs[i]]]
            /\ ~spHandle.c => Len(r.calls) = 1
            /\ (spHandle.c /\ \A i \in 1..Len(spHandle.subs) : ~spHandle.subs[i].c)
                  => (r.err = "none" => Len(r.calls) = Len(spHandle.subs))
            /\ IF \E i \in 1..Len(hs) : spSplit[hs[i].id] < 0
               THEN r.err = "SplitError" /\ r.out = NilSubtables
               ELSE /\ r.err = "none"
                    /\ r.out.tbls = PartsOf(spSplit, spRes.tbl, hs)
                    /\ r.out.nil <=> hs = <<>>

C9_Witness ==
    /\ spRes.done
    /\ spHandle = Handles(<<Handle("a"), Handle("b")>>)
    /\ spSplit["a"] = 1 /\ spSplit["b"] = 2
    /\ Len(spRes.r.calls) = 2
    /\ Len(spRes.r.out.tbls) = 3

(***************************************************************************)
(* Claims about the walker and the tree builder (Spec).                    *)
(***************************************************************************)
\* no two entries of a list of (table, filter) pairs are equal
NoEqualPair(pairs) ==
    \A i \in 1..Len(pairs) : \A j \in (i + 1)..Len(pairs) : pairs[i] # pairs[j]

WalkerPairs(k) ==
    [i \in 1..Len(wk[k].inputs) |->
        <<wk[k].inputs[i].table, wk[k].inputs[i].hints.filter>>]

\* the finalized inputs carry the filter in the hints their handle was
\* statted with
InputPairs(inputs) ==
    [i \in 1..Len(inputs) |-> <<inputs[i].table, inputs[i].handle.hints.filter>>]

\* C1: after any sequence of put and stat calls no two entries of a walker's
\* input list have equal table expressions and equal hint filters, and no
\* finalized inputs list of a node or of the tree holds such a pair.
C1_InputInterning ==
    /\ \A k \in 1..Len(wk) : NoEqualPair(WalkerPairs(k))
    /\ \A n \in 1..Len(nd) : nd[n].done => NoEqualPair(InputPairs(nd[n].inputs))
    /\ tree.done => NoEqualPair(InputPairs(tree.inputs))

C1_Witness ==
    /\ pc = "done"
    /\ \E a \in 1..Len(putLog) : \E n \in 1..Len(nd) :
          /\ putLog[a].merged
          /\ nd[n].w # putLog[a].w /\ nd[putLog[a].node].parent = n
          /\ Len(nd[n].inputs) >= 2

\* the Leaf operators of the operator chain of node n
Leaves(n) == {j \in 1..Len(nd[n].op) : nd[n].op[j].kind = "Leaf"}

\* the IterTable the Leaf of node n was created for
LeafTable(n) ==
    putLog[CHOOSE a \in 1..Len(putLog) :
              putLog[a].node = n /\ putLog[a].kind = "leaf"].it

\* inputs[i] (0-based) exists and is the table of the IterTable it
IsInputOf(inputs, i, it) ==
    /\ 0 <= i /\ i < Len(inputs)
    /\ inputs[i + 1].table = it.table
    /\ inputs[i + 1].handle.hints.filter = it.filter

\* C2 as claimed: in a returned tree every Leaf of a node indexes the inputs
\* list of that same node, at the table the Leaf was created for.
C2_Original ==
    pc = "done" =>
        \A n \in 1..Len(nd) : \A j \in Leaves(n) :
            IsInputOf(nd[n].inputs, nd[n].op[j].input, LeafTable(n))

\* the finalized inputs of the walker that lowered the trace of node n
ScopeInputs(n) == IF nd[n].parent = 0 THEN tree.inputs ELSE nd[nd[n].parent].inputs

\* C2 as amended: in a returned tree every Leaf of a node indexes the inputs
\* list of the walker that lowered the node's trace, at the table the Leaf
\* was created for: the inputs of the tree for the root, the inputs of the
\* parent node for a correlated child.
C2_LeafIndexing ==
    pc = "done" =>
        \A n \in 1..Len(nd) : \A j \in Leaves(n) :
            IsInputOf(ScopeInputs(n), nd[n].op[j].input, LeafTable(n))

C2_Witness ==
    /\ pc = "done"
    /\ \E n \in 1..Len(nd) : \E j \in Leaves(n) :
          /\ nd[n].parent # 0
          /\ nd[n].op[j].input = 1
          /\ nd[n].inputs = <<>>
          /\ \E a \in 1..Len(putLog) :
                putLog[a].node = n /\ putLog[a].kind = "leaf" /\ putLog[a].merged

\* C3 as claimed: two table references interned while lowering different
\* traces (a trace and its parent, or two sibling sub-traces) never share a
\* walker, so they are never merged and never share an index space.
C3_Original ==
    \A a, b \in 1..Len(putLog) :
        putLog[a].node # putLog[b].node => putLog[a].w # putLog[b].w

\* C3 as amended: table references interned while lowering different traces
\* share a walker exactly when the traces are sub-traces of the same parent;
\* a reference interned while lowering a sub-trace never shares a walker
\* with one interned while lowering its parent trace.
C3_ScopeIsolation ==
    \A a, b \in 1..Len(putLog) :
        LET n == putLog[a].node
            m == putLog[b].node
        IN  /\ putLog[a].w = nd[n].w
            /\ n # m => (putLog[a].w = putLog[b].w <=> nd[n].parent = nd[m].parent)
            /\ nd[m].parent = n => putLog[a].w # putLog[b].w

C3_Witness ==
    /\ pc = "done"
    /\ \E a, b, c \in 1..Len(putLog) :
          /\ nd[putLog[b].node].parent = putLog[a].node
          /\ nd[putLog[c].node].parent = putLog[a].node
          /\ putLog[b].node # putLog[c].node
          /\ putLog[a].it = putLog[b].it /\ putLog[b].it = putLog[c].it
          /\ ~putLog[b].merged /\ putLog[c].merged

\* C10 as claimed: a call of lowerUnionMap ends in an error, in NoOutput or in
\* a UnionMap operator; in NoOutput exactly when no call failed and the split
\* produced no subtable (a compound handle of no sub-handles included), and
\* otherwise in UnionMap with from the lowered child, orig the index of the
\* inner table and sub the subtables.
C10_UnionMapOutcome ==
    lum.done =>
        /\ lum.outcome \in {"error", "NoOutput", "UnionMap"}
        /\ lum.outcome = "error" <=> lum.err # "none"
        /\ lum.outcome = "NoOutput" <=>
               (lum.err = "none" /\ Len(lum.split.out.tbls) = 0)
        /\ lum.outcome = "UnionMap" =>
               lum.op = Append(lum.from, [kind |-> "UnionMap", orig |-> lum.input,
                                          sub |-> lum.split.out])

(***************************************************************************)
(* Claims about QueueRunner.Run (SpecQueue).                               *)
(***************************************************************************)
\* the number of calls of Finalize on the item of sequence number id
FinCount(id) == Cardinality({k \in 1..Len(qFin) : qFin[k].item = id})

AllFinalizedOnce == \A id \in 1..Len(qNext) : FinCount(id) = 1

\* C11: every item Next returned is passed to Finalize at most once, and
\* exactly once by the time Run has ended; Close is called only when every
\* item Next returned before has been finalized.
C11_FinalizeOnce ==
    /\ \A id \in 1..Len(qNext) : FinCount(id) <= 1
    /\ qClosed > 0 => AllFinalizedOnce
    /\ qpc \in {"returned", "panic"} => AllFinalizedOnce

\* the runs of runTable of the last batch on definition def
RunsOf(def) == {k \in 1..Len(qLog) : qLog[k].def = def}

\* the item of 0-based index i was processed completely for table def
Processed(i, def) ==
    \E k \in RunsOf(def) :
        \/ qLog[k].appended /\ qLog[k].err = "nil"
             /\ \E h \in 1..Len(qLog[k].indirect) : qLog[k].indirect[h] = i
        \/ i \in qLog[k].ignored

\* C12: when a batch has been finalized, an item finalized with StatusOK was,
\* for every definition with a pattern matching its path, part of an append
\* that succeeded or ignored (no file, another ETag); and when filter or
\* Append failed for a definition, every item of the batch that matches the
\* definition and was not ignored was finalized with another status.
C12_StatusOK ==
    qpc = "gather" =>
        \A i \in 1..Len(qInputs) : \A f \in 1..Len(qFin) :
            qFin[f].item = qInputs[i].id =>
                /\ qFin[f].status = StatusOK =>
                      \A def \in subdefs :
                          Matches(def, qInputs[i].path) => Processed(i - 1, def)
                /\ \A k \in 1..Len(qLog) :
                      ( /\ qLog[k].err # "nil"
                        /\ Matches(qLog[k].def, qInputs[i].path)
                        /\ (i - 1) \notin qLog[k].ignored )
                      => qFin[f].status # StatusOK

(***************************************************************************)
(* Claims about the handles of the walker (Spec).                          *)
(***************************************************************************)
\* the handle cached in the input i is what the environment returns for the
\* table and the current hints of i
CachedCurrent(i) ==
    ~i.handle.nil =>
        /\ i.handle.table = i.table
        /\ i.handle.hints = i.hints
        /\ i.handle.th = env[i.table]

\* the []Input list out is the list of walker k, each handle statted with
\* the hints the walker holds for the input
FinalizedFrom(out, k) ==
    /\ Len(out) = Len(wk[k].inputs)
    /\ \A j \in 1..Len(out) :
          /\ out[j].table = wk[k].inputs[j].table
          /\ ~out[j].handle.nil
          /\ out[j].handle = wk[k].inputs[j].handle
          /\ out[j].handle.hints = wk[k].inputs[j].hints

\* C13: a handle cached in an input of a walker is the result of the stat of
\* the environment for the current hints of the input; a failed stat leaves
\* the input without a handle; and every handle of a finalized inputs list
\* was statted with the fully merged hints.  (toNode creates the walker of
\* the sub-traces of node n right after lowering n: it is walker n + 1.)
C13_CachedHandle ==
    /\ \A k \in 1..Len(wk) : \A j \in 1..Len(wk[k].inputs) :
          CachedCurrent(wk[k].inputs[j])
    /\ (lum.done /\ lum.err = "StatError") =>
          wk[lum.w].inputs[lum.input + 1].handle.nil
    /\ (pc = "error" /\ ~(lum.done /\ lum.outcome = "error")) =>
          \E k \in 1..Len(wk) : Unstatted(wk[k].inputs) # {}
    /\ \A n \in 1..Len(nd) : nd[n].done => FinalizedFrom(nd[n].inputs, n + 1)
    /\ tree.done => FinalizedFrom(tree.inputs, 1)

\* a handle statted for a split was cleared by a later merge, and the input
\* statted again by finish with the merged hints
C13_Witness ==
    /\ pc = "done"
    /\ lum.done /\ ~lum.handle.nil
    /\ wk[lum.w].inputs[lum.input + 1].hints # lum.handle.hints
    /\ wk[lum.w].inputs[lum.input + 1].handle.hints # lum.handle.hints

\* C14 as claimed: in a returned tree, the handle lowerUnionMap passed to the
\* splitter for a UnionMap operator of the plan is the handle of input orig
\* in the finalized inputs of the scope: no later put merged into the input
\* and had it statted again.
C14_SplitHandle ==
    ( /\ pc = "done"
      /\ lum.done /\ lum.outcome = "UnionMap"
      /\ \E j \in 1..Len(nd[lum.node].op) : nd[lum.node].op[j].kind = "UnionMap" )
    => ScopeInputs(lum.node)[lum.input + 1].handle = lum.handle

(***************************************************************************)
(* Further claims about the lowering functions (SpecOrder, SpecLower).     *)
(***************************************************************************)
\* the 0-based indices of the aggregates, and of the group-by columns, whose
\* result name is the order column c
AggIndices(ha, c) ==
    {j \in 0..(Len(ha.agg) - 1) : IsIdentifier(c.column, ha.agg[j + 1].result)}

ByIndices(ha, c) ==
    {g \in 0..(Len(ha.by) - 1) : IsIdentifier(c.column, ha.by[g + 1])}

Least(S) == CHOOSE x \in S : \A y \in S : x <= y

\* the order-by entry the order column c stands for: aggregate names take
\* precedence over group-by names
Resolved(ha, c) ==
    [column |-> IF AggIndices(ha, c) # {} THEN Least(AggIndices(ha, c))
                ELSE Len(ha.agg) + Least(ByIndices(ha, c)),
     desc |-> c.desc, nullsLast |-> c.nullsLast]

Resolvable(ha, c) == AggIndices(ha, c) # {} \/ ByIndices(ha, c) # {}

\* C15 as claimed: an Order step over a HashAggregate returns the same
\* HashAggregate with one order-by entry appended per column, in column
\* order; when a column names neither an aggregate nor a group-by column the
\* lowering fails with an ErrNotSupported error and returns no operator.
C15_HashOrder ==
    (lwStep.kind = "Order" /\ Top(lwFrom).kind = "HashAggregate") =>
        LET ha   == Top(lwFrom)
            cols == lwStep.columns
        IN  IF \A i \in 1..Len(cols) : Resolvable(ha, cols[i])
            THEN lwRes = Ok(SetTop(lwFrom, [ha EXCEPT !.orderBy =
                          ha.orderBy \o [i \in 1..Len(cols) |-> Resolved(ha, cols[i])]]))
            ELSE lwRes.err \in ErrNotSupported /\ lwRes.op = <<>>

\* C16 as claimed: a Limit step with a non-zero count lowered over an
\* operator that already carries the limit of an earlier Limit step leaves
\* the smaller of the two counts on the operator, and over an OrderBy the
\* stored offset loses neither the earlier offset nor the one of the step.
C16_LimitFusion ==
    ( /\ lwStep.kind = "Limit" /\ lwStep.count # 0
      /\ Top(lwFrom).kind \in {"OrderBy", "HashAggregate", "Distinct"}
      /\ Top(lwFrom).limit # 0
      /\ lwRes.err = "none" )
    => /\ Top(lwRes.op).limit =
             (IF lwStep.count < Top(lwFrom).limit THEN lwStep.count
              ELSE Top(lwFrom).limit)
       /\ Top(lwFrom).kind = "OrderBy" =>
             /\ Top(lwRes.op).offset >= Top(lwFrom).offset
             /\ Top(lwRes.op).offset >= lwStep.offset

====
